---------------------------- MODULE Spec2Model ----------------------------
(***************************************************************************)
(* Model of the spreadsheet import scripts of ltl-driver-management:       *)
(*   server/scripts/import-carriers.py  (carrier roster -> carriers table) *)
(*   server/scripts/import-routes.py    (linehaul routes -> routes table)  *)
(*                                                                         *)
(* Text is a sequence of one-character strings, so that trimming, digit    *)
(* filtering, substring search and the regular expression of               *)
(* clean_time_string are computed character by character.  A spreadsheet   *)
(* cell and a Python value are records [kind, txt, num]: kind "none" is a  *)
(* NaN/None cell, "text" a str, "num" an integer-valued number.            *)
(***************************************************************************)
EXTENDS Integers, Sequences, FiniteSets, TLC

VARIABLES
    pipeline,            \* which script runs: "carrier", "route" ("none": a normalizer is exercised alone)
    missing,             \* the expected column the workbook lacks, or "none"
    source,              \* df: the rows read_excel returned, in order
    env,                 \* what the database does: [deleteFails, commitFails]
    table,               \* committed rows of the target table
    pending,             \* rows inserted by the open transaction, not yet committed
    aborted,             \* the open transaction is in the failed state
    pc,                  \* position in main()
    idx,                 \* 1-based position of df.iterrows()
    successful_inserts,  \* main's counter
    failed_inserts,      \* main's counter
    name_bound,          \* carrier main: the local `name` has been assigned
    log,                 \* history: what the loop did with each row
    runs,                \* how many times the script has been started
    firstCount,          \* history: rows in the table when the first run ended
    fn_in,               \* argument of the normalizer under test
    fn_out,              \* its return value
    fn_pc                \* "call" before, "return" after ("idle" when a script runs)

vars == <<pipeline, missing, source, env, table, pending, aborted, pc, idx,
          successful_inserts, failed_inserts, name_bound, log, runs, firstCount,
          fn_in, fn_out, fn_pc>>

fnVars == <<fn_in, fn_out, fn_pc>>

-----------------------------------------------------------------------------
(* Bounds of the model.                                                    *)

MaxRows == 2
MaxRuns == 2
MaxPhoneFrags == 4
MaxStatusFrags == 3
MaxTimeFrags == 3

-----------------------------------------------------------------------------
(* Values and text helpers.                                                *)

None == [kind |-> "none", txt |-> <<>>, num |-> 0]

Str(s) == [kind |-> "text", txt |-> s, num |-> 0]

Num(n) == [kind |-> "num", txt |-> <<>>, num |-> n]

isna(cell) == cell.kind = "none"

Digits == {"0", "1", "2", "3", "4", "5", "6", "7", "8", "9"}

IsDigit(c) == c \in Digits

DigitChar(d) == <<"0", "1", "2", "3", "4", "5", "6", "7", "8", "9">>[d + 1]

RECURSIVE IntToStr(_)
IntToStr(n) == IF n < 10 THEN <<DigitChar(n)>>
               ELSE Append(IntToStr(n \div 10), DigitChar(n % 10))

\* str(x) of a cell that is not NaN
str(cell) == IF cell.kind = "num" THEN IntToStr(cell.num) ELSE cell.txt

\* s[a:b] and s[a:] of Python, 0-based and clipped to the string
Slice(s, a, b) == SubSeq(s, a + 1, IF b < Len(s) THEN b ELSE Len(s))

SliceFrom(s, a) == SubSeq(s, a + 1, Len(s))

RECURSIVE lstrip(_)
lstrip(s) == IF s # <<>> /\ Head(s) = " " THEN lstrip(Tail(s)) ELSE s

RECURSIVE rstrip(_)
rstrip(s) == IF s # <<>> /\ s[Len(s)] = " " THEN rstrip(SubSeq(s, 1, Len(s) - 1)) ELSE s

strip(s) == rstrip(lstrip(s))

UpperChar(c) ==
    CASE c = "a" -> "A" [] c = "b" -> "B" [] c = "d" -> "D" [] c = "e" -> "E"
      [] c = "g" -> "G" [] c = "i" -> "I" [] c = "n" -> "N" [] c = "o" -> "O"
      [] c = "p" -> "P" [] c = "r" -> "R" [] c = "t" -> "T" [] c = "x" -> "X"
      [] OTHER -> c

upper(s) == [i \in 1..Len(s) |-> UpperChar(s[i])]

\* `sub in s`
Contains(s, sub) ==
    \E i \in 1..(Len(s) - Len(sub) + 1) : SubSeq(s, i, i + Len(sub) - 1) = sub

\* len(s.split(c))
SplitCount(s, c) == Cardinality({i \in 1..Len(s) : s[i] = c}) + 1

\* every text made of at most n fragments of F, in order
RECURSIVE Texts(_, _)
Texts(F, n) == IF n = 0 THEN {<<>>}
               ELSE LET T == Texts(F, n - 1) IN T \cup {f \o t : f \in F, t \in T}

-----------------------------------------------------------------------------
(* import-carriers.py: field normalizers.                                  *)

\* f"({p[:3]}) {p[3:6]}-{p[6:]}"
format_phone(p) ==
    <<"(">> \o Slice(p, 0, 3) \o <<")", " ">> \o Slice(p, 3, 6) \o <<"-">> \o SliceFrom(p, 6)

\* clean_phone with the leading-1 removal forgotten
clean_phone_keeps_one(phone_str) ==
    IF isna(phone_str) THEN None
    ELSE LET phone_clean == SelectSeq(str(phone_str), IsDigit) IN
         IF Len(phone_clean) = 10 THEN Str(format_phone(phone_clean))
         ELSE IF Len(phone_clean) = 11 /\ phone_clean[1] = "1"
              THEN Str(format_phone(phone_clean))
         ELSE IF phone_clean # <<>> THEN Str(phone_clean) ELSE None

clean_phone(phone_str) ==
    IF isna(phone_str) THEN None
    ELSE LET phone_clean == SelectSeq(str(phone_str), IsDigit) IN
         IF Len(phone_clean) = 10 THEN Str(format_phone(phone_clean))
         ELSE IF Len(phone_clean) = 11 /\ phone_clean[1] = "1"
              THEN Str(format_phone(SliceFrom(phone_clean, 1)))
         ELSE IF phone_clean # <<>> THEN Str(phone_clean) ELSE None

clean_string(s) ==
    IF isna(s) THEN None
    ELSE IF strip(str(s)) # <<>> THEN Str(strip(str(s))) ELSE None

NOT_ONBOARDED_TEXT == <<"N", "O", "T", " ", "O", "N", "B", "O", "A", "R", "D", "E", "D">>

ONBOARDED_TEXT == <<"O", "N", "B", "O", "A", "R", "D", "E", "D">>

\* map_status with the two substring tests in the wrong order
map_status_bare_first(excel_status) ==
    IF isna(excel_status) THEN "PENDING"
    ELSE LET status_clean == upper(strip(str(excel_status))) IN
         IF Contains(status_clean, ONBOARDED_TEXT) THEN "ONBOARDED"
         ELSE IF Contains(status_clean, NOT_ONBOARDED_TEXT) THEN "NOT_ONBOARDED"
         ELSE "PENDING"

map_status(excel_status) ==
    IF isna(excel_status) THEN "PENDING"
    ELSE LET status_clean == upper(strip(str(excel_status))) IN
         IF Contains(status_clean, NOT_ONBOARDED_TEXT) THEN "NOT_ONBOARDED"
         ELSE IF Contains(status_clean, ONBOARDED_TEXT) THEN "ONBOARDED"
         ELSE "PENDING"

-----------------------------------------------------------------------------
(* import-routes.py: clean_time_string.                                    *)

PLACEHOLDER_DATE == <<"1", "9", "0", "0", "-", "0", "1", "-", "0", "1">>

\* r'(\d{2}:\d{2}:\d{2})' matches at 1-based position i
TimeTokenAt(s, i) ==
    /\ i + 7 <= Len(s)
    /\ IsDigit(s[i]) /\ IsDigit(s[i + 1]) /\ s[i + 2] = ":"
    /\ IsDigit(s[i + 3]) /\ IsDigit(s[i + 4]) /\ s[i + 5] = ":"
    /\ IsDigit(s[i + 6]) /\ IsDigit(s[i + 7])

TokenStarts(s) == {i \in 1..Len(s) : TimeTokenAt(s, i)}

Least(S) == CHOOSE i \in S : \A j \in S : i <= j

Greatest(S) == CHOOSE i \in S : \A j \in S : j <= i

\* re.search scanning from the right end instead of the left
re_search_last(s) ==
    IF TokenStarts(s) = {} THEN None
    ELSE Str(SubSeq(s, Greatest(TokenStarts(s)), Greatest(TokenStarts(s)) + 7))

\* re.search(r'(\d{2}:\d{2}:\d{2})', s): the leftmost match, or None
re_search_time(s) ==
    IF TokenStarts(s) = {} THEN None
    ELSE Str(SubSeq(s, Least(TokenStarts(s)), Least(TokenStarts(s)) + 7))

\* lines 35-40: strftime('%H:%M:%S') of pandas' parse of the text, or the text
\* itself when the parse raises.  What pandas accepts is not in this
\* repository: the value is kept symbolic, tagged with the text it came from.
parse_or_keep(s) == [kind |-> "to_datetime", txt |-> s, num |-> 0]

clean_time_string(time_str) ==
    IF isna(time_str) THEN None
    ELSE LET s == str(time_str)
             m == re_search_time(s)
         IN IF Contains(s, PLACEHOLDER_DATE) /\ m # None THEN m
            ELSE IF Contains(s, <<":">>) /\ SplitCount(s, ":") = 3 THEN Str(s)
            ELSE IF Contains(s, <<":">>) /\ SplitCount(s, ":") = 2 THEN Str(s \o <<":", "0", "0">>)
            ELSE parse_or_keep(s)

-----------------------------------------------------------------------------
(* Numeric coercion of a cell: int(x) and float(x).  A number converts; a  *)
(* text converts when it is a run of decimal digits and raises ValueError  *)
(* otherwise.                                                              *)

RECURSIVE StrToInt(_)
StrToInt(s) == IF s = <<>> THEN 0
               ELSE 10 * StrToInt(SubSeq(s, 1, Len(s) - 1))
                    + (CHOOSE d \in 0..9 : DigitChar(d) = s[Len(s)])

CoercionRaises(cell) ==
    cell.kind = "text" /\ (cell.txt = <<>> \/ \E i \in 1..Len(cell.txt) : ~IsDigit(cell.txt[i]))

py_number(cell) == IF cell.kind = "num" THEN cell.num ELSE StrToInt(cell.txt)

\* bool(x): NaN is truthy, a number is truthy unless 0, a text unless empty
py_bool(cell) ==
    IF cell.kind = "num" THEN cell.num # 0
    ELSE IF cell.kind = "text" THEN cell.txt # <<>>
    ELSE TRUE

-----------------------------------------------------------------------------
(* import-carriers.py main: one row of the loop, up to cursor.execute.     *)

\* clean_string(str(int(x))) if pd.notna(x) else None
id_number(cell) == IF isna(cell) THEN None ELSE clean_string(Str(IntToStr(py_number(cell))))

\* the skip rule with the second test inverted (`and dot_number`): a row with
\* neither number is let through
both_ids_missing_dot_only(mc_number, dot_number) == mc_number = None /\ dot_number # None

\* `not mc_number and not dot_number`
both_ids_missing(mc_number, dot_number) == mc_number = None /\ dot_number = None

\* the parameter tuple handed to cursor.execute
carrier_values(row) ==
    LET status == map_status(row.Status) IN
    [name               |-> clean_string(row.CarrierName),
     phone              |-> clean_phone(row.Phone),
     mcNumber           |-> id_number(row.MCNumber),
     dotNumber          |-> id_number(row.DOTNumber),
     status             |-> status,
     onboardingComplete |-> (status = "ONBOARDED")]

\* The try block of one iteration, in statement order, for a workbook that
\* lacks column `miss`: "raise" (an exception reaches the except clause),
\* "continue" (the row is skipped) or "execute" (the insert is issued).
\* bound: the statement `name = ...` completed.
carrier_try(row, miss) ==
    IF miss = "Carrier Name" THEN [out |-> "raise", bound |-> FALSE]
    ELSE IF clean_string(row.CarrierName) = None THEN [out |-> "continue", bound |-> TRUE]
    ELSE IF miss = "Phone" THEN [out |-> "raise", bound |-> TRUE]
    ELSE IF miss = "MC Number" THEN [out |-> "raise", bound |-> TRUE]
    ELSE IF CoercionRaises(row.MCNumber) THEN [out |-> "raise", bound |-> TRUE]
    ELSE IF CoercionRaises(row.DOTNumber) THEN [out |-> "raise", bound |-> TRUE]
    ELSE IF both_ids_missing(id_number(row.MCNumber), id_number(row.DOTNumber))
         THEN [out |-> "continue", bound |-> TRUE]
    ELSE IF miss = "Status" THEN [out |-> "raise", bound |-> TRUE]
    ELSE [out |-> "execute", bound |-> TRUE]

\* ON CONFLICT ("mcNumber"): a row of the table, or one this transaction has
\* inserted, carries the same non-null mcNumber.  Nulls never conflict.
mc_conflict(values, committed, inserted) ==
    /\ values.mcNumber # None
    /\ \/ \E i \in 1..Len(committed) : committed[i].mcNumber = values.mcNumber
       \/ \E i \in 1..Len(inserted) : inserted[i].mcNumber = values.mcNumber

-----------------------------------------------------------------------------
(* import-routes.py main: one row of the loop, up to cursor.execute.       *)

route_values(row) ==
    LET miles == IF isna(row.Miles) THEN None ELSE Num(py_number(row.Miles)) IN
    [name          |-> row.Name,
     origin        |-> row.Orig,
     destination   |-> row.Dest,
     distance      |-> miles,
     miles         |-> miles,
     active        |-> py_bool(row.Active),
     departureTime |-> clean_time_string(row.DepartTime),
     arrivalTime   |-> clean_time_string(row.ArriveTime)]

\* the loop with the `if miles is None: continue` test left out
route_try_no_miles_test(row, miss) ==
    IF miss = "Orig" THEN "raise"
    ELSE IF miss = "Miles" THEN "raise"
    ELSE IF CoercionRaises(row.Miles) THEN "raise"
    ELSE IF miss = "Depart Time" THEN "raise"
    ELSE "execute"

route_try(row, miss) ==
    IF miss = "Orig" THEN "raise"
    ELSE IF miss = "Miles" THEN "raise"
    ELSE IF CoercionRaises(row.Miles) THEN "raise"
    ELSE IF miss = "Depart Time" THEN "raise"
    ELSE IF isna(row.Miles) THEN "continue"
    ELSE "execute"

-----------------------------------------------------------------------------
(* Inputs.                                                                 *)

T_A == <<"A">>

T_OLD == <<"O", "L", "D">>

T_x == <<"x">>

T_0815 == <<"0", "8", ":", "1", "5">>

T_Onboarded == <<"O", "n", "b", "o", "a", "r", "d", "e", "d">>

\* `rejects`: the row's values violate a constraint of the target table, so
\* the database refuses the insert.  Only a row that reaches the insert can
\* be refused.
CarrierRows ==
    {r \in [CarrierName : {None, Str(<<" ">>), Str(T_A)},
            Phone       : {None},
            MCNumber    : {None, Num(1), Num(2), Str(T_x)},
            DOTNumber   : {None, Num(5)},
            Status      : {Str(T_Onboarded)},
            rejects     : BOOLEAN] :
        r.rejects => carrier_try(r, "none").out = "execute"}

RouteRows ==
    {r \in [Name       : {Str(T_A), Str(T_x)},
            Orig       : {Str(T_A)},
            Dest       : {Str(T_x)},
            Miles      : {None, Num(10), Str(<<"1", "2">>), Str(T_x)},
            Active     : {Num(1)},
            DepartTime : {Str(T_0815)},
            ArriveTime : {None},
            rejects    : BOOLEAN] :
        r.rejects => route_try(r, "none") = "execute"}

CarrierColumns == {"Carrier Name", "Phone", "MC Number", "Status"}

RouteColumns == {"Orig", "Miles", "Depart Time"}

OldCarrier ==
    [name |-> Str(T_OLD), phone |-> None, mcNumber |-> Str(<<"1">>), dotNumber |-> None,
     status |-> "PENDING", onboardingComplete |-> FALSE]

OldRoute ==
    [name |-> Str(T_OLD), origin |-> Str(T_A), destination |-> Str(T_x),
     distance |-> Num(7), miles |-> Num(7), active |-> TRUE,
     departureTime |-> None, arrivalTime |-> None]

RECURSIVE SeqsUpTo(_, _)
SeqsUpTo(S, n) == IF n = 0 THEN {<<>>}
                  ELSE LET P == SeqsUpTo(S, n - 1) IN P \cup {Append(p, x) : p \in P, x \in S}

FnIdle == fn_in = None /\ fn_out = None /\ fn_pc = "idle"

MachineStart ==
    /\ pending = <<>> /\ aborted = FALSE /\ pc = "start" /\ idx = 1
    /\ successful_inserts = 0 /\ failed_inserts = 0 /\ name_bound = FALSE
    /\ log = <<>> /\ runs = 1 /\ firstCount = 0

InitCarrier ==
    /\ pipeline = "carrier"
    /\ missing \in {"none"} \cup CarrierColumns
    /\ source \in SeqsUpTo(CarrierRows, MaxRows)
    /\ env \in [deleteFails : {FALSE}, commitFails : BOOLEAN]
    /\ table \in {<<>>, <<OldCarrier>>}

InitRoute ==
    /\ pipeline = "route"
    /\ missing \in {"none"} \cup RouteColumns
    /\ source \in SeqsUpTo(RouteRows, MaxRows)
    /\ env \in [deleteFails : BOOLEAN, commitFails : BOOLEAN]
    /\ table \in {<<>>, <<OldRoute>>}

Init == (InitCarrier \/ InitRoute) /\ MachineStart /\ FnIdle

\* the carrier script started on a workbook with every expected column and a
\* database that fails no commit
InitRerun ==
    /\ pipeline = "carrier"
    /\ missing = "none"
    /\ source \in SeqsUpTo(CarrierRows, MaxRows)
    /\ env = [deleteFails |-> FALSE, commitFails |-> FALSE]
    /\ table \in {<<>>, <<OldCarrier>>}
    /\ MachineStart /\ FnIdle

-----------------------------------------------------------------------------
(* Actions of main().                                                      *)

\* psycopg2.connect and pd.read_excel: either raising ends the process with
\* sys.exit(1) before any row is looked at.
Start ==
    /\ pc = "start"
    /\ \E setupFails \in BOOLEAN :
         pc' = IF setupFails THEN "exited"
               ELSE IF pipeline = "route" THEN "clear" ELSE "loop"
    /\ successful_inserts' = 0 /\ failed_inserts' = 0
    /\ UNCHANGED <<pipeline, missing, source, env, table, pending, aborted, idx,
                   name_bound, log, runs, firstCount>>
    /\ UNCHANGED fnVars

\* One iteration of `for index, row in df.iterrows()` of import-carriers.py.
\* An insert on a failed transaction raises (PostgreSQL ignores commands
\* until the end of the transaction block); a refused insert raises and
\* leaves the transaction failed; a conflicting mcNumber does nothing.
\* The except clause formats `name`: unbound, that raises out of main.
CarrierRow ==
    /\ pipeline = "carrier" /\ pc = "loop" /\ idx <= Len(source)
    /\ LET row == source[idx]
           t == carrier_try(row, missing)
           values == carrier_values(row)
           dbRaises == aborted \/ row.rejects
       IN  /\ name_bound' = (name_bound \/ t.bound)
           /\ IF t.out = "continue"
              THEN /\ log' = Append(log, "skipped")
                   /\ idx' = idx + 1
                   /\ UNCHANGED <<pending, aborted, pc, successful_inserts, failed_inserts>>
              ELSE IF t.out = "raise" /\ ~(name_bound \/ t.bound)
              THEN /\ log' = Append(log, "crashed")
                   /\ pc' = "crashed"
                   /\ UNCHANGED <<pending, aborted, idx, successful_inserts, failed_inserts>>
              ELSE IF t.out = "raise"
              THEN /\ log' = Append(log, "raised")
                   /\ failed_inserts' = failed_inserts + 1
                   /\ idx' = idx + 1
                   /\ UNCHANGED <<pending, aborted, pc, successful_inserts>>
              ELSE IF dbRaises
              THEN /\ log' = Append(log, "refused")
                   /\ aborted' = TRUE
                   /\ failed_inserts' = failed_inserts + 1
                   /\ idx' = idx + 1
                   /\ UNCHANGED <<pending, pc, successful_inserts>>
              ELSE /\ log' = Append(log, "executed")
                   /\ pending' = IF mc_conflict(values, table, pending) THEN pending
                                 ELSE Append(pending, values)
                   /\ successful_inserts' = successful_inserts + 1
                   /\ idx' = idx + 1
                   /\ UNCHANGED <<aborted, pc, failed_inserts>>
    /\ UNCHANGED <<pipeline, missing, source, env, table, runs, firstCount>>
    /\ UNCHANGED fnVars

\* conn.commit() after the loop: a commit that raises is rolled back; a
\* commit of a failed transaction returns normally and the server rolls the
\* transaction back.
CommitEffect ==
    /\ table' = IF env.commitFails \/ aborted THEN table ELSE table \o pending
    /\ pending' = <<>>
    /\ aborted' = FALSE
    /\ pc' = "done"

CarrierCommit ==
    /\ pipeline = "carrier" /\ pc = "loop" /\ idx > Len(source)
    /\ CommitEffect
    /\ UNCHANGED <<pipeline, missing, source, env, idx, successful_inserts,
                   failed_inserts, name_bound, log, runs, firstCount>>
    /\ UNCHANGED fnVars

\* cursor.execute("DELETE FROM routes"); conn.commit() inside try/except:
\* a DELETE that raises is printed and the run goes on, on a failed
\* transaction.  A DELETE that went through is committed at once.
RouteClear ==
    /\ pipeline = "route" /\ pc = "clear"
    /\ IF env.deleteFails
       THEN aborted' = TRUE /\ table' = table
       ELSE aborted' = aborted /\ table' = <<>>
    /\ pc' = "loop"
    /\ UNCHANGED <<pipeline, missing, source, env, pending, idx, successful_inserts,
                   failed_inserts, name_bound, log, runs, firstCount>>
    /\ UNCHANGED fnVars

\* One iteration of the loop of import-routes.py.
RouteRow ==
    /\ pipeline = "route" /\ pc = "loop" /\ idx <= Len(source)
    /\ LET row == source[idx]
           t == route_try(row, missing)
           dbRaises == aborted \/ row.rejects
       IN  IF t = "continue"
           THEN /\ log' = Append(log, "skipped")
                /\ UNCHANGED <<pending, aborted, successful_inserts, failed_inserts>>
           ELSE IF t = "raise"
           THEN /\ log' = Append(log, "raised")
                /\ failed_inserts' = failed_inserts + 1
                /\ UNCHANGED <<pending, aborted, successful_inserts>>
           ELSE IF dbRaises
           THEN /\ log' = Append(log, "refused")
                /\ aborted' = TRUE
                /\ failed_inserts' = failed_inserts + 1
                /\ UNCHANGED <<pending, successful_inserts>>
           ELSE /\ log' = Append(log, "executed")
                /\ pending' = Append(pending, route_values(row))
                /\ successful_inserts' = successful_inserts + 1
                /\ UNCHANGED <<aborted, failed_inserts>>
    /\ idx' = idx + 1
    /\ UNCHANGED <<pipeline, missing, source, env, table, pc, name_bound, runs, firstCount>>
    /\ UNCHANGED fnVars

RouteCommit ==
    /\ pipeline = "route" /\ pc = "loop" /\ idx > Len(source)
    /\ CommitEffect
    /\ UNCHANGED <<pipeline, missing, source, env, idx, successful_inserts,
                   failed_inserts, name_bound, log, runs, firstCount>>
    /\ UNCHANGED fnVars

\* the script is started again on the same workbook
Rerun ==
    /\ pc = "done" /\ runs < MaxRuns
    /\ runs' = runs + 1
    /\ firstCount' = IF runs = 1 THEN Len(table) ELSE firstCount
    /\ pc' = "start" /\ idx' = 1 /\ name_bound' = FALSE /\ log' = <<>>
    /\ successful_inserts' = 0 /\ failed_inserts' = 0
    /\ UNCHANGED <<pipeline, missing, source, env, table, pending, aborted>>
    /\ UNCHANGED fnVars

\* What the closing summary of a run accounts for.  Both scripts declare and
\* print two counters; neither `continue` increments anything, so the number
\* of skipped rows the run reports is the 0 it started from.
RunReport ==
    [succeeded |-> successful_inserts, failed |-> failed_inserts, skipped |-> 0]

Next == Start \/ CarrierRow \/ CarrierCommit \/ RouteClear \/ RouteRow \/ RouteCommit

Spec == Init /\ [][Next]_vars

NextRerun == Start \/ CarrierRow \/ CarrierCommit \/ Rerun

SpecRerun == InitRerun /\ [][NextRerun]_vars

-----------------------------------------------------------------------------
(* The normalizers exercised alone, on every cell of a bounded set.        *)

MachineIdle ==
    /\ pipeline = "none" /\ missing = "none" /\ source = <<>>
    /\ env = [deleteFails |-> FALSE, commitFails |-> FALSE]
    /\ table = <<>> /\ pending = <<>> /\ aborted = FALSE /\ pc = "idle" /\ idx = 1
    /\ successful_inserts = 0 /\ failed_inserts = 0 /\ name_bound = FALSE
    /\ log = <<>> /\ runs = 0 /\ firstCount = 0

PhoneFrags ==
    {<<"1">>, <<"5", "5", "5">>, <<"(", "5", "5", "5", ")", " ">>, <<"2", "3", "4">>,
     <<"2", "3", "4", "-">>, <<"5", "6", "7", "8">>, <<"x">>, <<"+", "1", " ">>}

PhoneCells == {None, Num(1234)} \cup {Str(t) : t \in Texts(PhoneFrags, MaxPhoneFrags)}

StatusFrags ==
    {<<"N", "o", "t">>, <<"N", "O", "T", " ">>, <<" ">>, T_Onboarded, ONBOARDED_TEXT,
     <<"x">>, <<"P", "e", "n", "d", "i", "n", "g">>}

StatusCells == {None, Num(1)} \cup {Str(t) : t \in Texts(StatusFrags, MaxStatusFrags)}

StatusRows ==
    [CarrierName : {Str(T_A)}, Phone : {None}, MCNumber : {Num(1)}, DOTNumber : {None},
     Status : StatusCells, rejects : {FALSE}]

TimeFrags ==
    {<<"1", "9", "0", "0", "-", "0", "1", "-", "0", "1", " ">>,
     <<"0", "0", ":", "0", "0", ":", "0", "0", " ">>,
     <<"0", "8", ":", "1", "5", ":", "0", "0">>,
     T_0815, <<"x">>, <<"8">>, <<":">>, <<" ">>}

TimeCells == {None} \cup {Str(t) : t \in Texts(TimeFrags, MaxTimeFrags)}

InitPhone == fn_in \in PhoneCells /\ fn_out = None /\ fn_pc = "call" /\ MachineIdle

Call_clean_phone ==
    /\ fn_pc = "call"
    /\ fn_out' = clean_phone(fn_in)
    /\ fn_pc' = "return"
    /\ UNCHANGED <<fn_in, pipeline, missing, source, env, table, pending, aborted, pc, idx,
                   successful_inserts, failed_inserts, name_bound, log, runs, firstCount>>

SpecPhone == InitPhone /\ [][Call_clean_phone]_vars

InitStatus == fn_in \in StatusRows /\ fn_out = None /\ fn_pc = "call" /\ MachineIdle

\* status = map_status(row['Status']) ... onboarding_complete = status == 'ONBOARDED'
Call_carrier_values ==
    /\ fn_pc = "call"
    /\ fn_out' = carrier_values(fn_in)
    /\ fn_pc' = "return"
    /\ UNCHANGED <<fn_in, pipeline, missing, source, env, table, pending, aborted, pc, idx,
                   successful_inserts, failed_inserts, name_bound, log, runs, firstCount>>

SpecStatus == InitStatus /\ [][Call_carrier_values]_vars

InitTime == fn_in \in TimeCells /\ fn_out = None /\ fn_pc = "call" /\ MachineIdle

Call_clean_time_string ==
    /\ fn_pc = "call"
    /\ fn_out' = clean_time_string(fn_in)
    /\ fn_pc' = "return"
    /\ UNCHANGED <<fn_in, pipeline, missing, source, env, table, pending, aborted, pc, idx,
                   successful_inserts, failed_inserts, name_bound, log, runs, firstCount>>

SpecTime == InitTime /\ [][Call_clean_time_string]_vars

-----------------------------------------------------------------------------
(* Properties.                                                             *)

Rows == 1..Len(source)

Logged(tags) == {i \in 1..Len(log) : log[i] \in tags}

TableRows == {table[i] : i \in 1..Len(table)}

\* section 4.2 of the design: the rows the validator rejects
ValidatorDrops(row) ==
    IF pipeline = "carrier"
    THEN clean_string(row.CarrierName) = None \/ (isna(row.MCNumber) /\ isna(row.DOTNumber))
    ELSE isna(row.Miles)

\* a row that passes the validator, converts, and that the table accepts
Acceptable(row) ==
    /\ ~row.rejects
    /\ IF pipeline = "carrier" THEN carrier_try(row, "none").out = "execute"
       ELSE route_try(row, "none") = "execute"

Persisted(row) ==
    IF pipeline = "carrier"
    THEN \E r \in TableRows :
            \/ r = carrier_values(row)
            \/ r.mcNumber # None /\ r.mcNumber = carrier_values(row).mcNumber
    ELSE route_values(row) \in TableRows

\* C1 (as claimed): the second run of the carrier import on the same source
\* leaves as many carrier rows as the first run left.
C1_Original == (runs = 2 /\ pc = "done") => Len(table) = firstCount

\* C2 (as claimed): a route run that reaches its end (the commit not failing,
\* every column present) leaves exactly one row per source row with non-null
\* Miles and no row of before the run, and no row is written while the table
\* still holds rows.
C2_Original ==
    (pipeline = "route" /\ missing = "none" /\ ~env.commitFails) =>
        /\ pc = "done" =>
              /\ Len(table) = Cardinality({i \in Rows : ~isna(source[i].Miles)})
              /\ \A r \in TableRows : r.name # Str(T_OLD)
        /\ pending # <<>> => table = <<>>

\* C3: no insert is issued for a carrier row whose name is null or blank, nor
\* for one whose MC and DOT numbers are both null; no such row is in the
\* transaction or in the table.
C3_NoInsertWithoutNameOrIds ==
    pipeline = "carrier" =>
        /\ \A i \in Logged({"executed", "refused"}) :
              /\ ~isna(source[i].CarrierName)
              /\ strip(str(source[i].CarrierName)) # <<>>
              /\ ~(isna(source[i].MCNumber) /\ isna(source[i].DOTNumber))
        /\ \A i \in 1..Len(pending) :
              /\ pending[i].name # None
              /\ pending[i].mcNumber # None \/ pending[i].dotNumber # None
        /\ \A r \in TableRows : r.name # None /\ (r.mcNumber # None \/ r.dotNumber # None)

C3_Witness ==
    /\ pipeline = "carrier" /\ pc = "done" /\ missing = "none"
    /\ \E i \in Logged({"skipped"}) :
          source[i].CarrierName = Str(T_A) /\ source[i].Phone = None
          /\ isna(source[i].MCNumber) /\ isna(source[i].DOTNumber)
    /\ \E i \in Logged({"skipped"}) : source[i].CarrierName = Str(<<" ">>)

\* C4 (as claimed): with every column present a row that raises never ends
\* the run, each such row adds exactly one to the failure counter, and once
\* the final commit went through every acceptable row after a failed row is
\* in the table.
C4_Original ==
    (pipeline \in {"carrier", "route"} /\ missing = "none") =>
        /\ pc # "crashed"
        /\ failed_inserts = Cardinality(Logged({"raised", "refused"}))
        /\ (pc = "done" /\ ~env.commitFails) =>
              \A i \in Logged({"raised", "refused"}) : \A j \in Rows :
                  (i < j /\ Acceptable(source[j])) => Persisted(source[j])

ConflictRowStep ==
    /\ pipeline = "carrier" /\ pc = "loop" /\ idx <= Len(source) /\ idx' = idx + 1
    /\ carrier_try(source[idx], missing).out = "execute"
    /\ ~aborted /\ ~source[idx].rejects
    /\ mc_conflict(carrier_values(source[idx]), table, pending)

\* C6 (as claimed): such a row leaves the table and both counters as they
\* were.
C6_Original ==
    [][ConflictRowStep =>
          /\ table' = table /\ pending' = pending
          /\ successful_inserts' = successful_inserts
          /\ failed_inserts' = failed_inserts]_vars

\* the row reads the column the workbook lacks: its try block raises there
\* and would not raise with the column present
HitsMissingColumn(row) ==
    IF pipeline = "carrier"
    THEN carrier_try(row, missing).out = "raise" /\ carrier_try(row, "none").out # "raise"
    ELSE route_try(row, missing) = "raise" /\ route_try(row, "none") # "raise"

\* C7 (as claimed): a run over a source that lacks an expected column, with a
\* row that reads that column, never reaches its normal end (the commit and
\* the summary).
C7_Original ==
    (missing # "none" /\ \E i \in Rows : HitsMissingColumn(source[i])) => pc # "done"

T_EXAMPLE ==
    <<"1", "9", "0", "0", "-", "0", "1", "-", "0", "1", " ",
      "0", "0", ":", "0", "0", ":", "0", "0", " ",
      "0", "8", ":", "1", "5", ":", "0", "0">>

T_081500 == <<"0", "8", ":", "1", "5", ":", "0", "0">>

T_000000 == <<"0", "0", ":", "0", "0", ":", "0", "0">>

Tokens(s) == {SubSeq(s, i, i + 7) : i \in TokenStarts(s)}

ColonRules(s, out) ==
    /\ SplitCount(s, ":") = 2 => out = Str(s \o <<":", "0", "0">>)
    /\ SplitCount(s, ":") = 3 => out = Str(s)

\* C8 (as claimed): null gives null; a text with the placeholder date gives
\* its embedded HH:MM:SS token, "08:15:00" for
\* "1900-01-01 00:00:00 08:15:00"; any other text gets ":00" appended when it
\* has two colon-delimited parts and is returned as it is when it has three.
C8_Original ==
    fn_pc = "return" =>
        IF isna(fn_in) THEN fn_out = None
        ELSE IF Contains(str(fn_in), PLACEHOLDER_DATE) /\ Tokens(str(fn_in)) # {}
        THEN /\ fn_out.kind = "text" /\ fn_out.txt \in Tokens(str(fn_in))
             /\ str(fn_in) = T_EXAMPLE => fn_out = Str(T_081500)
        ELSE ColonRules(str(fn_in), fn_out)

\* C8 (amended): null gives null; a text with the placeholder date and an
\* HH:MM:SS token gives the leftmost such token ("00:00:00" for
\* "1900-01-01 00:00:00 08:15:00"); any other text, the placeholder date
\* without a token included, follows the two rules on colon-delimited parts.
C8_LeftmostToken ==
    fn_pc = "return" =>
        IF isna(fn_in) THEN fn_out = None
        ELSE IF Contains(str(fn_in), PLACEHOLDER_DATE) /\ Tokens(str(fn_in)) # {}
        THEN /\ \E m \in TokenStarts(str(fn_in)) :
                   /\ \A j \in TokenStarts(str(fn_in)) : m <= j
                   /\ fn_out = Str(SubSeq(str(fn_in), m, m + 7))
             /\ str(fn_in) = T_EXAMPLE => fn_out = Str(T_000000)
        ELSE ColonRules(str(fn_in), fn_out)

C8_Witness ==
    /\ fn_pc = "return" /\ ~isna(fn_in) /\ str(fn_in) = T_EXAMPLE
    /\ fn_out = Str(T_000000)

\* C9: with D the digits of the cell's text, clean_phone gives
\* "(D[0:3]) D[3:6]-D[6:10]" for 10 digits, what it gives for D[1:] for 11
\* digits with a leading 1, D itself for any other non-empty D, and null for
\* an empty D or a null cell; it always returns a text or null.
C9_PhoneContract ==
    fn_pc = "return" =>
        /\ fn_out.kind \in {"none", "text"}
        /\ IF isna(fn_in) THEN fn_out = None
           ELSE LET D == SelectSeq(str(fn_in), IsDigit) IN
                IF Len(D) = 10
                THEN fn_out = Str(<<"(", D[1], D[2], D[3], ")", " ", D[4], D[5], D[6], "-",
                                    D[7], D[8], D[9], D[10]>>)
                ELSE IF Len(D) = 11 /\ D[1] = "1"
                THEN /\ fn_out = clean_phone(Str(Tail(D)))
                     /\ fn_out = Str(<<"(", D[2], D[3], D[4], ")", " ", D[5], D[6], D[7], "-",
                                       D[8], D[9], D[10], D[11]>>)
                ELSE fn_out = IF D = <<>> THEN None ELSE Str(D)

C9_Witness ==
    /\ fn_pc = "return"
    /\ fn_in = Str(<<"+", "1", " ", "(", "5", "5", "5", ")", " ", "2", "3", "4", "-",
                     "5", "6", "7", "8">>)
    /\ fn_out = Str(<<"(", "5", "5", "5", ")", " ", "2", "3", "4", "-", "5", "6", "7", "8">>)

\* C10: map_status gives one of PENDING, ONBOARDED, NOT_ONBOARDED for every
\* cell; PENDING for a null cell; NOT_ONBOARDED, not ONBOARDED, for a text
\* that trimmed and uppercased contains "NOT ONBOARDED"; and the row is
\* written with onboardingComplete true exactly when its status is ONBOARDED.
C10_StatusTotal ==
    fn_pc = "return" =>
        /\ fn_out.status \in {"PENDING", "ONBOARDED", "NOT_ONBOARDED"}
        /\ isna(fn_in.Status) => fn_out.status = "PENDING"
        /\ (~isna(fn_in.Status)
              /\ Contains(upper(strip(str(fn_in.Status))), NOT_ONBOARDED_TEXT))
             => fn_out.status = "NOT_ONBOARDED"
        /\ fn_out.onboardingComplete = (fn_out.status = "ONBOARDED")

C10_Witness ==
    /\ fn_pc = "return"
    /\ fn_in.Status = Str(<<"N", "o", "t", " ", "O", "n", "b", "o", "a", "r", "d", "e", "d">>)
    /\ fn_out.status = "NOT_ONBOARDED" /\ fn_out.onboardingComplete = FALSE

=============================================================================
